---------------------------- MODULE Spec2Model ----------------------------
(***************************************************************************)
(* Plots.py: a straight-line script that seeds numpy's global generator,  *)
(* draws nine arrays of n values, builds a pandas DataFrame from seven of  *)
(* them and renders three seaborn regression plots.                        *)
(*                                                                         *)
(* Each statement of the script is one action.  Two executions of the     *)
(* script (Runs) are modelled side by side, each with its own interpreter *)
(* state, so that properties relating two runs can be stated.              *)
(*                                                                         *)
(* Real numbers are fixed point: POVRATTC_A and ObjectiveHealth are in    *)
(* hundredths, PerceivedHealth in ten-thousandths, so that the linear      *)
(* combinations of the script are exact integer arithmetic.                *)
(*                                                                         *)
(* numpy's generator is library code: it is modelled as a small           *)
(* deterministic generator (a Weyl sequence over 0..Modulus-1 with an      *)
(* output function).     What the model keeps of it is what the script    *)
(* relies on: seeding resets the state to a function of the seed, every    *)
(* draw is a function of the state, and a draw of k values advances the    *)
(* state by k.  Before seeding the state comes from OS entropy.            *)
(***************************************************************************)
EXTENDS Integers, Sequences, FiniteSets, TLC

\* size of the modelled generator's state space
Modulus == 27

\* src/Plots.py:8
n == 1000

\* the two executions of the script that are compared
Runs == {"run1", "run2"}

VARIABLES pc, rng, env, df, log, started, shown, fault

vars == <<pc, rng, env, df, log, started, shown, fault>>

-----------------------------------------------------------------------------
(* numpy.random: the generator and the three distributions the script uses *)

\* state of the generator after k values have been taken from state s
Advance(s, k) == (s + 5 * k) % Modulus

\* the raw value the generator yields in state s, in 0..Modulus-1
Raw(s) == (2 * s * s + s + 1) % Modulus

\* np.random.seed(x): the state is a function of the seed alone
seed(x) == x % Modulus

\* randint with the upper bound included, as Python's random.randint has it
randintInclusive(low, high, s, size) ==
    [i \in 1..size |-> low + (Raw(Advance(s, i - 1)) % (high - low + 1))]

\* np.random.randint(low, high, size): uniform on the half-open low..high-1
randint(low, high, s, size) ==
    [i \in 1..size |-> low + (Raw(Advance(s, i - 1)) % (high - low))]

\* a standard normal deviate in hundredths, quantised to -2.00 .. 2.00
StdNormal(u) == ((u % 9) - 4) * 50

\* np.random.normal(loc, scale, size), loc and scale in hundredths
normal(loc, scale, s, size) ==
    [i \in 1..size |-> loc + ((scale * StdNormal(Raw(Advance(s, i - 1)))) \div 100)]

\* binomial counting one trial too many
binomialExtraTrial(trials, p, s, size) ==
    [i \in 1..size |->
        Cardinality({j \in 1..(trials + 1) :
            Raw(Advance(s, (i - 1) * (trials + 1) + (j - 1))) * 100 < p * Modulus})]

\* np.random.binomial(trials, p, size), p in percent: successes among trials
binomial(trials, p, s, size) ==
    [i \in 1..size |->
        Cardinality({j \in 1..trials :
            Raw(Advance(s, (i - 1) * trials + (j - 1))) * 100 < p * Modulus})]

-----------------------------------------------------------------------------
(* the arithmetic of the two latent variables *)

\* 0.48 * DIBEV_A + 0.61 * HYPEV_A + noise, in hundredths
ObjectiveHealthOf(D, H, noise) ==
    [i \in 1..Len(D) |-> 48 * D[i] + 61 * H[i] + noise[i]]

\* -0.48 * ObjectiveHealth - 0.28 * POVRATTC_A + 0.01 * EDUCP_A + noise,
\* in ten-thousandths
PerceivedHealthOf(O, P, E, noise) ==
    [i \in 1..Len(O) |-> (-48) * O[i] + (-28) * P[i] + 100 * E[i] + 100 * noise[i]]

-----------------------------------------------------------------------------
(* pandas and seaborn *)

\* the columns pd.DataFrame({...}) is given, in the order of the dict
FrameColumns ==
    <<"EDUCP_A", "POVRATTC_A", "ObjectiveHealth", "PerceivedHealth",
      "PHSTAT_A", "PHQCAT_A", "LSATIS4_A">>

FrameNames == {FrameColumns[k] : k \in 1..Len(FrameColumns)}

\* a frame built from every generated variable
DataFrameAll(e) == [c \in DOMAIN e |-> e[c]]

\* a frame built without the PerceivedHealth column
DataFrameWithoutPerceived(e) == [c \in FrameNames \ {"PerceivedHealth"} |-> e[c]]

\* pd.DataFrame(dict): one column per key, holding the array of that name
DataFrame(e) == [c \in FrameNames |-> e[c]]

\* pandas raises ValueError when the arrays differ in length
SameLength(e) == \A c, d \in FrameNames : Len(e[c]) = Len(e[d])

\* the columns each plot names as x, y and hue
PlotColumns(k) ==
    CASE k = 1 -> {"POVRATTC_A", "ObjectiveHealth", "EDUCP_A"}
      [] k = 2 -> {"ObjectiveHealth", "PerceivedHealth"}
      [] k = 3 -> {"POVRATTC_A", "PerceivedHealth", "EDUCP_A"}

-----------------------------------------------------------------------------
(* the interpreter: statements run top to bottom, an exception is uncaught *)

\* a run that goes on with the statement after an exception
RunningDespiteFault(r, l) == pc[r] = l

\* run r is about to execute the statement labelled l
Running(r, l) == pc[r] = l /\ fault[r] = "none"

\* name = <array>, the array having come from the generator (or not)
Assign(r, name, arr, next) ==
    /\ env' = [env EXCEPT ![r] = (name :> arr) @@ @]
    /\ pc' = [pc EXCEPT ![r] = next]
    /\ UNCHANGED <<df, started, shown, fault>>

\* a draw of `size` values for `what`, kept in the order it was made
Consume(r, what, size, arr) ==
    /\ log' = [log EXCEPT ![r] = Append(@, [var |-> what, size |-> size, values |-> arr])]
    /\ rng' = [rng EXCEPT ![r] = Advance(@, size)]

Init ==
    /\ pc = [r \in Runs |-> "seed"]
    /\ rng \in [Runs -> 0..(Modulus - 1)]
    /\ env = [r \in Runs |-> <<>>]
    /\ df = [r \in Runs |-> <<>>]
    /\ log = [r \in Runs |-> <<>>]
    /\ started = [r \in Runs |-> <<>>]
    /\ shown = [r \in Runs |-> <<>>]
    /\ fault = [r \in Runs |-> "none"]

\* the script without its call of np.random.seed
SeedMissing(r) ==
    /\ Running(r, "seed")
    /\ pc' = [pc EXCEPT ![r] = "EDUCP_A"]
    /\ UNCHANGED <<rng, env, df, log, started, shown, fault>>

\* line 7
Seed(r) ==
    /\ Running(r, "seed")
    /\ rng' = [rng EXCEPT ![r] = seed(42)]
    /\ pc' = [pc EXCEPT ![r] = "EDUCP_A"]
    /\ UNCHANGED <<env, df, log, started, shown, fault>>

\* line 11
DrawEDUCP_A(r) ==
    /\ Running(r, "EDUCP_A")
    /\ LET a == randint(1, 5, rng[r], n) IN
        /\ Consume(r, "EDUCP_A", n, a)
        /\ Assign(r, "EDUCP_A", a, "POVRATTC_A")

\* line 12
DrawPOVRATTC_A(r) ==
    /\ Running(r, "POVRATTC_A")
    /\ LET a == normal(200, 50, rng[r], n) IN
        /\ Consume(r, "POVRATTC_A", n, a)
        /\ Assign(r, "POVRATTC_A", a, "DIBEV_A")

\* line 15
DrawDIBEV_A(r) ==
    /\ Running(r, "DIBEV_A")
    /\ LET a == binomial(1, 10, rng[r], n) IN
        /\ Consume(r, "DIBEV_A", n, a)
        /\ Assign(r, "DIBEV_A", a, "HYPEV_A")

\* line 16
DrawHYPEV_A(r) ==
    /\ Running(r, "HYPEV_A")
    /\ LET a == binomial(1, 20, rng[r], n) IN
        /\ Consume(r, "HYPEV_A", n, a)
        /\ Assign(r, "HYPEV_A", a, "ObjectiveHealth")

\* line 17 with the size argument of the noise left out: one value is
\* drawn and broadcast over the rows
ComputeObjectiveHealthScalarNoise(r) ==
    /\ Running(r, "ObjectiveHealth")
    /\ LET noise == normal(0, 50, rng[r], 1) IN
        /\ Consume(r, "ObjectiveHealth.noise", 1, noise)
        /\ Assign(r, "ObjectiveHealth",
                  [i \in 1..n |-> 48 * env[r]["DIBEV_A"][i] + 61 * env[r]["HYPEV_A"][i] + noise[1]],
                  "PHSTAT_A")

\* line 17
ComputeObjectiveHealth(r) ==
    /\ Running(r, "ObjectiveHealth")
    /\ LET noise == normal(0, 50, rng[r], n) IN
        /\ Consume(r, "ObjectiveHealth.noise", n, noise)
        /\ Assign(r, "ObjectiveHealth",
                  ObjectiveHealthOf(env[r]["DIBEV_A"], env[r]["HYPEV_A"], noise),
                  "PHSTAT_A")

\* line 20
DrawPHSTAT_A(r) ==
    /\ Running(r, "PHSTAT_A")
    /\ LET a == randint(1, 6, rng[r], n) IN
        /\ Consume(r, "PHSTAT_A", n, a)
        /\ Assign(r, "PHSTAT_A", a, "PHQCAT_A")

\* line 21
DrawPHQCAT_A(r) ==
    /\ Running(r, "PHQCAT_A")
    /\ LET a == randint(0, 4, rng[r], n) IN
        /\ Consume(r, "PHQCAT_A", n, a)
        /\ Assign(r, "PHQCAT_A", a, "LSATIS4_A")

\* line 22
DrawLSATIS4_A(r) ==
    /\ Running(r, "LSATIS4_A")
    /\ LET a == randint(1, 5, rng[r], n) IN
        /\ Consume(r, "LSATIS4_A", n, a)
        /\ Assign(r, "LSATIS4_A", a, "PerceivedHealth")

\* lines 23-28
ComputePerceivedHealth(r) ==
    /\ Running(r, "PerceivedHealth")
    /\ LET noise == normal(0, 50, rng[r], n) IN
        /\ Consume(r, "PerceivedHealth.noise", n, noise)
        /\ Assign(r, "PerceivedHealth",
                  PerceivedHealthOf(env[r]["ObjectiveHealth"], env[r]["POVRATTC_A"],
                                    env[r]["EDUCP_A"], noise),
                  "DataFrame")

\* lines 31-39
CreateDataFrame(r) ==
    /\ Running(r, "DataFrame")
    /\ IF SameLength(env[r])
         THEN /\ df' = [df EXCEPT ![r] = DataFrame(env[r])]
              /\ pc' = [pc EXCEPT ![r] = "plot1"]
              /\ UNCHANGED fault
         ELSE /\ fault' = [fault EXCEPT ![r] = "ValueError"]
              /\ UNCHANGED <<df, pc>>
    /\ UNCHANGED <<rng, env, log, started, shown>>

\* a plot call that trims the frame it is given to the columns it uses
PlotTrimsFrame(r, k, next) ==
    /\ started' = [started EXCEPT ![r] = Append(@, k)]
    /\ df' = [df EXCEPT ![r] = [c \in DOMAIN @ \cap PlotColumns(k) |-> @[c]]]
    /\ pc' = [pc EXCEPT ![r] = next]
    /\ UNCHANGED <<rng, env, log, shown, fault>>

\* sns.lmplot / sns.regplot with titles, labels and layout: figure k is
\* drawn from the frame, which is only read
Plot(r, k, next) ==
    /\ IF PlotColumns(k) \subseteq DOMAIN df[r]
         THEN /\ started' = [started EXCEPT ![r] = Append(@, k)]
              /\ pc' = [pc EXCEPT ![r] = next]
              /\ UNCHANGED fault
         ELSE /\ fault' = [fault EXCEPT ![r] = "KeyError"]
              /\ UNCHANGED <<started, pc>>
    /\ UNCHANGED <<rng, env, df, log, shown>>

\* a show that displays nothing
ShowNothing(r, k, next) ==
    /\ pc' = [pc EXCEPT ![r] = next]
    /\ UNCHANGED <<rng, env, df, log, started, shown, fault>>

\* plt.show(): the pending figure is displayed
Show(r, k, next) ==
    /\ shown' = [shown EXCEPT ![r] = Append(@, k)]
    /\ pc' = [pc EXCEPT ![r] = next]
    /\ UNCHANGED <<rng, env, df, log, started, fault>>

\* the first plot without its plt.show()
Plot1NotShown(r) ==
    /\ pc[r] = "plot1"
    /\ fault[r] = "none"
    /\ started' = [started EXCEPT ![r] = Append(@, 1)]
    /\ pc' = [pc EXCEPT ![r] = "plot2"]
    /\ UNCHANGED <<rng, env, df, log, shown, fault>>

\* lines 42-54
Plot1(r) == Running(r, "plot1") /\ Plot(r, 1, "show1")

\* line 55
Show1(r) == Running(r, "show1") /\ Show(r, 1, "plot2")

\* lines 58-68
Plot2(r) == Running(r, "plot2") /\ Plot(r, 2, "show2")

\* line 69
Show2(r) == Running(r, "show2") /\ Show(r, 2, "plot3")

\* lines 72-84
Plot3(r) == Running(r, "plot3") /\ Plot(r, 3, "show3")

\* line 85
Show3(r) == Running(r, "show3") /\ Show(r, 3, "done")

\* a library call raises (no display, out of memory, interrupt): nothing
\* in the script catches it, the statement has no effect and the run stops
Fault(r) ==
    /\ fault[r] = "none"
    /\ pc[r] # "done"
    /\ fault' = [fault EXCEPT ![r] = "library"]
    /\ UNCHANGED <<pc, rng, env, df, log, started, shown>>

\* one statement of run r
Step(r) ==
    \/ Seed(r)
    \/ DrawEDUCP_A(r)
    \/ DrawPOVRATTC_A(r)
    \/ DrawDIBEV_A(r)
    \/ DrawHYPEV_A(r)
    \/ ComputeObjectiveHealth(r)
    \/ DrawPHSTAT_A(r)
    \/ DrawPHQCAT_A(r)
    \/ DrawLSATIS4_A(r)
    \/ ComputePerceivedHealth(r)
    \/ CreateDataFrame(r)
    \/ Plot1(r)
    \/ Show1(r)
    \/ Plot2(r)
    \/ Show2(r)
    \/ Plot3(r)
    \/ Show3(r)

Next == \E r \in Runs : Step(r) \/ Fault(r)

Spec == Init /\ [][Next]_vars

\* the interpreter always executes the next statement of a run
FairSpec == Spec /\ \A r \in Runs : WF_vars(Step(r))

-----------------------------------------------------------------------------
(* the stages of a run *)

\* the Data Simulator has finished and the table has been handed over
TableBuilt(r) ==
    pc[r] \in {"plot1", "show1", "plot2", "show2", "plot3", "show3", "done"}

\* the nine variables the simulator generates, in the order of the script
Generated ==
    <<"EDUCP_A", "POVRATTC_A", "DIBEV_A", "HYPEV_A", "ObjectiveHealth",
      "PHSTAT_A", "PHQCAT_A", "LSATIS4_A", "PerceivedHealth">>

GeneratedNames == {Generated[k] : k \in 1..Len(Generated)}

\* the values a column holds
Values(col) == {col[i] : i \in 1..Len(col)}

\* every row of a column holds a value of S
Within(col, S) == \A i \in 1..Len(col) : col[i] \in S

-----------------------------------------------------------------------------
(* C1 *)

\* C1 as stated: once the simulator has finished, the table has exactly
\* 1000 rows and exactly the nine generated variables as its columns.
C1_NineColumns ==
    \A r \in Runs : TableBuilt(r) =>
        /\ DOMAIN df[r] = GeneratedNames
        /\ Cardinality(DOMAIN df[r]) = 9
        /\ \A c \in DOMAIN df[r] : Len(df[r][c]) = 1000

\* C1 amended: once the simulator has finished, the table has exactly 1000
\* rows in every column and exactly seven columns, EDUCP_A, POVRATTC_A,
\* ObjectiveHealth, PerceivedHealth, PHSTAT_A, PHQCAT_A and LSATIS4_A;
\* DIBEV_A and HYPEV_A are generated but are not columns of the table.
C1_SevenColumns ==
    \A r \in Runs : TableBuilt(r) =>
        /\ DOMAIN df[r] = {"EDUCP_A", "POVRATTC_A", "ObjectiveHealth",
                           "PerceivedHealth", "PHSTAT_A", "PHQCAT_A", "LSATIS4_A"}
        /\ Cardinality(DOMAIN df[r]) = 7
        /\ \A c \in DOMAIN df[r] : Len(df[r][c]) = 1000

C1_Witness ==
    \E r \in Runs :
        /\ pc[r] = "plot1"
        /\ Cardinality(DOMAIN df[r]) = 7
        /\ Len(df[r]["PerceivedHealth"]) = 1000
        /\ DOMAIN env[r] = GeneratedNames

-----------------------------------------------------------------------------
(* C2 *)

\* C2: two runs seeded alike produce identical data: any variable both
\* runs have generated holds the same array in both, and once both have
\* built their table the two tables are equal, whatever state the
\* generator was in before it was seeded.
C2_Deterministic ==
    \A r1, r2 \in Runs :
        /\ \A v \in DOMAIN env[r1] \cap DOMAIN env[r2] : env[r1][v] = env[r2][v]
        /\ (TableBuilt(r1) /\ TableBuilt(r2)) => df[r1] = df[r2]

C2_Witness ==
    /\ \A r \in Runs : pc[r] = "done"
    /\ df["run1"] = df["run2"]
    /\ Len(df["run1"]["PerceivedHealth"]) = 1000
    /\ Cardinality(Values(df["run1"]["PerceivedHealth"])) > 1

-----------------------------------------------------------------------------
(* C3 *)

\* C3: the stream is consumed in the order EDUCP_A, POVRATTC_A, DIBEV_A,
\* HYPEV_A, noise of ObjectiveHealth, PHSTAT_A, PHQCAT_A, LSATIS4_A, noise
\* of PerceivedHealth, each draw of 1000 values and made once: the draws
\* made so far are a prefix of that order, the generator has advanced by
\* 1000 per draw from the seeded state, and a latent variable exists only
\* once the variables it is computed from exist.
DrawOrder ==
    <<"EDUCP_A", "POVRATTC_A", "DIBEV_A", "HYPEV_A", "ObjectiveHealth.noise",
      "PHSTAT_A", "PHQCAT_A", "LSATIS4_A", "PerceivedHealth.noise">>

C3_DrawOrder ==
    \A r \in Runs :
        /\ Len(log[r]) <= 9
        /\ \A k \in 1..Len(log[r]) :
              /\ log[r][k].var = DrawOrder[k]
              /\ log[r][k].size = 1000
              /\ Len(log[r][k].values) = 1000
        /\ pc[r] # "seed" => rng[r] = Advance(seed(42), 1000 * Len(log[r]))
        /\ "ObjectiveHealth" \in DOMAIN env[r] =>
              /\ {"DIBEV_A", "HYPEV_A"} \subseteq DOMAIN env[r]
              /\ Len(log[r]) >= 5
        /\ "PerceivedHealth" \in DOMAIN env[r] =>
              /\ {"ObjectiveHealth", "POVRATTC_A", "EDUCP_A"} \subseteq DOMAIN env[r]
              /\ Len(log[r]) = 9
        /\ TableBuilt(r) => Len(log[r]) = 9

C3_Witness ==
    \E r \in Runs :
        /\ pc[r] = "DataFrame"
        /\ Len(log[r]) = 9
        /\ log[r][9].var = "PerceivedHealth.noise"
        /\ "PerceivedHealth" \in DOMAIN env[r]

-----------------------------------------------------------------------------
(* C4 *)

\* C4: in every row of the table EDUCP_A is in 1..4, PHSTAT_A in 1..5,
\* PHQCAT_A in 0..3 and LSATIS4_A in 1..4.
C4_Ranges ==
    \A r \in Runs : TableBuilt(r) =>
        /\ Within(df[r]["EDUCP_A"], 1..4)
        /\ Within(df[r]["PHSTAT_A"], 1..5)
        /\ Within(df[r]["PHQCAT_A"], 0..3)
        /\ Within(df[r]["LSATIS4_A"], 1..4)

\* every value of each range is drawn
C4_Witness ==
    \E r \in Runs :
        /\ TableBuilt(r)
        /\ Values(df[r]["EDUCP_A"]) = 1..4
        /\ Values(df[r]["PHSTAT_A"]) = 1..5
        /\ Values(df[r]["PHQCAT_A"]) = 0..3
        /\ Values(df[r]["LSATIS4_A"]) = 1..4

-----------------------------------------------------------------------------
(* C5 *)

\* ObjectiveHealth without the noise that was drawn for it, in hundredths
DeterministicPart(r) ==
    [i \in 1..Len(env[r]["ObjectiveHealth"]) |->
        env[r]["ObjectiveHealth"][i] - log[r][5].values[i]]

\* C5: DIBEV_A and HYPEV_A are 0 or 1 in every row, and ObjectiveHealth
\* less its noise is 0, 0.48, 0.61 or 1.09 in every row.
C5_Indicators ==
    \A r \in Runs :
        /\ "DIBEV_A" \in DOMAIN env[r] => Within(env[r]["DIBEV_A"], {0, 1})
        /\ "HYPEV_A" \in DOMAIN env[r] => Within(env[r]["HYPEV_A"], {0, 1})
        /\ "ObjectiveHealth" \in DOMAIN env[r] =>
              Within(DeterministicPart(r), {0, 48, 61, 109})

\* all four values occur
C5_Witness ==
    \E r \in Runs :
        /\ "ObjectiveHealth" \in DOMAIN env[r]
        /\ Values(env[r]["DIBEV_A"]) = {0, 1}
        /\ Values(env[r]["HYPEV_A"]) = {0, 1}
        /\ Values(DeterministicPart(r)) = {0, 48, 61, 109}

-----------------------------------------------------------------------------
(* C6 *)

\* is s a prefix of t
IsPrefix(s, t) == Len(s) <= Len(t) /\ \A k \in 1..Len(s) : s[k] = t[k]

\* C6: nothing is rendered before the simulator has drawn all nine
\* variables and built the table; the plots are started in the order
\* 1 (Plot A), 2 (Plot B), 3 (Plot C) and shown in that order, and a plot
\* is started only when every plot before it has been shown.
C6_StageOrder ==
    \A r \in Runs :
        /\ IsPrefix(started[r], <<1, 2, 3>>)
        /\ IsPrefix(shown[r], started[r])
        /\ Len(started[r]) <= Len(shown[r]) + 1
        /\ Len(started[r]) > 0 =>
              /\ DOMAIN env[r] = GeneratedNames
              /\ Len(log[r]) = 9
              /\ DOMAIN df[r] # {}
        /\ PlotColumns(1) = {"POVRATTC_A", "ObjectiveHealth", "EDUCP_A"}
        /\ PlotColumns(2) = {"ObjectiveHealth", "PerceivedHealth"}
        /\ PlotColumns(3) = {"POVRATTC_A", "PerceivedHealth", "EDUCP_A"}

C6_Witness ==
    \E r \in Runs :
        /\ pc[r] = "show3"
        /\ started[r] = <<1, 2, 3>>
        /\ shown[r] = <<1, 2>>

-----------------------------------------------------------------------------
(* C7 *)

\* C7: once the table exists no step changes it: its columns, its row
\* counts and every cell stay as they were created.
C7_TableReadOnly ==
    [][\A r \in Runs : TableBuilt(r) => df'[r] = df[r]]_vars

\* the third plot has been shown and the table is the one that was built
C7_Witness ==
    \E r \in Runs :
        /\ pc[r] = "done"
        /\ shown[r] = <<1, 2, 3>>
        /\ df[r] = DataFrame(env[r])
        /\ Len(df[r]["EDUCP_A"]) = 1000

-----------------------------------------------------------------------------
(* C8 *)

\* the whole state of run r
RunState(r) == <<pc[r], rng[r], env[r], df[r], log[r], started[r], shown[r], fault[r]>>

\* C8: a fault is not caught or retried: a run that has faulted takes no
\* further step, and the plots it has started are only those before the
\* step that faulted.
C8_FaultIsFatal ==
    [][\A r \in Runs : fault[r] # "none" =>
          /\ RunState(r)' = RunState(r)
          /\ pc[r] \in {"plot1"} => started[r] = <<>>
          /\ pc[r] \in {"show1", "plot2"} => started[r] = <<1>>
          /\ pc[r] \in {"show2", "plot3"} => started[r] = <<1, 2>>]_vars

\* run r faulted while rendering the second plot, the other run went on
C8_Witness ==
    \E r, o \in Runs :
        /\ fault[r] = "library"
        /\ pc[r] = "plot2"
        /\ started[r] = <<1>>
        /\ o # r
        /\ pc[o] = "done"

-----------------------------------------------------------------------------
(* C9 *)

\* C9: a run in which no library call faults terminates, and then each of
\* the three plots has been rendered and shown exactly once, in order,
\* none of the plot calls having raised.
C9_Terminates ==
    \A r \in Runs :
        <>(\/ fault[r] = "library"
           \/ /\ pc[r] = "done"
              /\ fault[r] = "none"
              /\ started[r] = <<1, 2, 3>>
              /\ shown[r] = <<1, 2, 3>>)

C9_Witness ==
    \A r \in Runs :
        /\ pc[r] = "done"
        /\ fault[r] = "none"
        /\ started[r] = <<1, 2, 3>>
        /\ shown[r] = <<1, 2, 3>>

-----------------------------------------------------------------------------
(* C10 *)

\* the plot the statement at label l renders, 0 if it renders none
PlotAt(l) ==
    CASE l = "plot1" -> 1
      [] l = "plot2" -> 2
      [] l = "plot3" -> 3
      [] OTHER -> 0

\* C10 as stated: each plot's x, y and hue columns are columns of the
\* table when the plot is rendered, and every variable the simulator
\* generated is a column of the table.
C10_AllGeneratedInTable ==
    \A r \in Runs :
        /\ PlotAt(pc[r]) # 0 => PlotColumns(PlotAt(pc[r])) \subseteq DOMAIN df[r]
        /\ TableBuilt(r) => DOMAIN env[r] \subseteq DOMAIN df[r]

\* C10 amended: each plot's x, y and hue columns are columns of the table
\* when the plot is rendered, and every variable the simulator generated
\* except DIBEV_A and HYPEV_A is a column of the table, holding the array
\* that was generated.
C10_PlotColumnsPresent ==
    \A r \in Runs :
        /\ PlotAt(pc[r]) # 0 => PlotColumns(PlotAt(pc[r])) \subseteq DOMAIN df[r]
        /\ \A k \in 1..Len(started[r]) : PlotColumns(started[r][k]) \subseteq DOMAIN df[r]
        /\ TableBuilt(r) =>
              /\ DOMAIN env[r] \ {"DIBEV_A", "HYPEV_A"} \subseteq DOMAIN df[r]
              /\ \A c \in DOMAIN df[r] : df[r][c] = env[r][c]
              /\ fault[r] \in {"none", "library"}

C10_Witness ==
    \E r \in Runs :
        /\ pc[r] = "plot3"
        /\ started[r] = <<1, 2>>
        /\ PlotColumns(3) \subseteq DOMAIN df[r]
        /\ "DIBEV_A" \in DOMAIN env[r] \ DOMAIN df[r]
=============================================================================
